---- MODULE Spec2Model ----
(* A model of bf, the brainfuck interpreter of src/bf.c: the tape of cells,  *)
(* the dispatch loop of interpret() with its two bracket scans, and the byte *)
(* input and output it performs through getchar() and putchar().             *)
EXTENDS Integers, Sequences, FiniteSets

(* ------------------------------------------------------------------------ *)
(* Bounds of the model.                                                      *)

\* longest program over the full alphabet
MaxLen == 4
\* longest program over the bracket alphabet
MaxBrLen == 6
\* most cells the allocator hands out before malloc() can only fail
MaxCells == 7
\* most bytes written before putchar() can only fail
MaxOut == 5
\* most bytes the input holds before end-of-input
MaxIn == 2

(* ------------------------------------------------------------------------ *)
(* The bytes of the program text, as character codes.                        *)

PLUS == 43
MINUS == 45
LT == 60
GT == 62
DOT == 46
COMMA == 44
LBRACKET == 91
RBRACKET == 93
\* two bytes that are no instruction: a space and an embedded zero byte
SPACE == 32
NUL == 0

Instructions == {PLUS, MINUS, LT, GT, DOT, COMMA, LBRACKET, RBRACKET}
Alphabet == Instructions \cup {SPACE}
BracketAlphabet == {LBRACKET, RBRACKET, MINUS, NUL}

\* stdio's end-of-file value
EOF == -1
\* the bytes the input can hold
InBytes == {0, 7}

\* the null pointer
NULL == 0
\* unsigned char
UCHAR_MOD == 256
\* size_t of the smallest width C allows; SIZE_MAX is ((size_t) -1)
SIZE_MAX == 65535

INT_SUCC == "INT_SUCC"
INT_INVL == "INT_INVL"
INT_MEMERR == "INT_MEMERR"
INT_IOERR == "INT_IOERR"
\* interpret() has not returned yet
RUNNING == "RUNNING"
\* main() has not called interpret()
NOT_CALLED == "NOT_CALLED"

SeqsUpTo(S, n) == UNION {[1..k -> S] : k \in 0..n}

Echo == <<COMMA, LBRACKET, DOT, COMMA, RBRACKET>>
\* 257 times '+': one cell driven once around the byte range
PlusRun == [k \in 1..257 |-> PLUS]

\* "-[>[]<-]": a loop whose body holds a loop
LoopOverLoop == <<MINUS, LBRACKET, GT, LBRACKET, RBRACKET, LT, MINUS, RBRACKET>>

\* "++++++++[>++++[>++>+++>+++>+<<<<-]>+>+>->>+[<]<-]>>.>---.+++++++..+++."
Hello ==
    <<PLUS, PLUS, PLUS, PLUS, PLUS, PLUS, PLUS, PLUS, LBRACKET, GT, PLUS,
      PLUS, PLUS, PLUS, LBRACKET, GT, PLUS, PLUS, GT, PLUS, PLUS, PLUS, GT,
      PLUS, PLUS, PLUS, GT, PLUS, LT, LT, LT, LT, MINUS, RBRACKET, GT,
      PLUS, GT, PLUS, GT, MINUS, GT, GT, PLUS, LBRACKET, LT, RBRACKET, LT,
      MINUS, RBRACKET, GT, GT, DOT, GT, MINUS, MINUS, MINUS, DOT, PLUS,
      PLUS, PLUS, PLUS, PLUS, PLUS, PLUS, DOT, DOT, PLUS, PLUS, PLUS, DOT>>

Programs ==
    SeqsUpTo(Alphabet, MaxLen) \cup SeqsUpTo(BracketAlphabet, MaxBrLen)
        \cup {Echo, PlusRun, LoopOverLoop, Hello}

(* ------------------------------------------------------------------------ *)
(* State.                                                                    *)

VARIABLES
    str,     \* the program text (fsize is its length)
    i,       \* the instruction index of the dispatch loop
    bal,     \* the balance counter of the bracket scans
    node,    \* the tape's nodes in order of allocation: c, prev, next
    ptr,     \* the current node
    out,     \* the bytes written by putchar so far
    status,  \* RUNNING, or what interpret returned
    inp,     \* the bytes getchar has returned so far
    eof,     \* getchar has returned EOF
    ref,     \* the run of the same text without its non-instruction bytes
    mpc,     \* where main() is
    freed    \* the nodes main() has passed to free(), in order

vars == <<str, i, bal, node, ptr, out, status, inp, eof, ref, mpc, freed>>

\* the interpreter's own state, as one record
Main ==
    [str |-> str, i |-> i, bal |-> bal, node |-> node, ptr |-> ptr,
     out |-> out, status |-> status]

\* a node
Node(c, prev, next) == [c |-> c, prev |-> prev, next |-> next]

\* interpret() entered on text s with the tape main() builds: one zeroed node
\* with no neighbours
Fresh(s) ==
    [str |-> s, i |-> 0, bal |-> 0, node |-> <<Node(0, NULL, NULL)>>,
     ptr |-> 1, out |-> <<>>, status |-> RUNNING]

(* ------------------------------------------------------------------------ *)
(* Helpers.                                                                  *)

fsize(m) == Len(m.str)
\* str[j], for j inside the text
At(s, j) == s[j + 1]
\* size_t arithmetic
SizeAdd(a, b) == (a + b) % (SIZE_MAX + 1)
SizeSub(a, b) == (a - b) % (SIZE_MAX + 1)
\* the for loop's ++i
NextI(m) == [m EXCEPT !.i = SizeAdd(m.i, 1)]
\* ptr->c
Cur(m) == m.node[m.ptr].c

\* a saturating increment, as a wider or clamped cell type would give
Incr_Saturating(c) == IF c = UCHAR_MOD - 1 THEN c ELSE c + 1

\* ++ptr->c and --ptr->c on an unsigned char
Incr(c) == (c + 1) % UCHAR_MOD
Decr(c) == (c - 1) % UCHAR_MOD

\* the text without the bytes that are no instruction
Strip(s) == SelectSeq(s, LAMBDA b : b \in Instructions)

(* ------------------------------------------------------------------------ *)
(* The instructions: each maps the interpreter's state to the state after    *)
(* one iteration of the dispatch loop, the loop's ++i included.              *)

\* case '+'
DoPlus(m) == NextI([m EXCEPT !.node[m.ptr].c = Incr(@)])

\* case '-'
DoMinus(m) == NextI([m EXCEPT !.node[m.ptr].c = Decr(@)])

\* what malloc() returns when it succeeds: the next unused node
Fresh_node(m) == Len(m.node) + 1

\* case '<'; ok is the outcome of malloc() when a node is needed
DoLeft(m, ok) ==
    IF m.node[m.ptr].prev = NULL
    THEN IF ok
         THEN LET n == Fresh_node(m)
              IN  NextI([m EXCEPT
                      !.node = Append([@ EXCEPT ![m.ptr].prev = n],
                                      Node(0, NULL, m.ptr)),
                      !.ptr = n])
         ELSE [m EXCEPT !.status = INT_MEMERR]
    ELSE NextI([m EXCEPT !.ptr = m.node[m.ptr].prev])

\* '>' that zeroes the cell it arrives at, new or not
DoRight_Rezero(m, ok) ==
    IF m.node[m.ptr].next = NULL
    THEN IF ok
         THEN LET n == Len(m.node) + 1
              IN  NextI([m EXCEPT
                      !.node = Append([@ EXCEPT ![m.ptr].next = n],
                                      Node(0, m.ptr, NULL)),
                      !.ptr = n])
         ELSE [m EXCEPT !.status = INT_MEMERR]
    ELSE NextI([m EXCEPT !.node[m.node[m.ptr].next].c = 0,
                         !.ptr = m.node[m.ptr].next])

\* case '>'
DoRight(m, ok) ==
    IF m.node[m.ptr].next = NULL
    THEN IF ok
         THEN LET n == Fresh_node(m)
              IN  NextI([m EXCEPT
                      !.node = Append([@ EXCEPT ![m.ptr].next = n],
                                      Node(0, m.ptr, NULL)),
                      !.ptr = n])
         ELSE [m EXCEPT !.status = INT_MEMERR]
    ELSE NextI([m EXCEPT !.ptr = m.node[m.ptr].next])

\* '.' that ignores what putchar() returns
DoDot_Unchecked(m, ok) ==
    NextI([m EXCEPT !.out = IF ok THEN Append(@, m.node[m.ptr].c) ELSE @])

\* case '.'; ok is whether putchar() took the byte
DoDot(m, ok) ==
    IF ok
    THEN NextI([m EXCEPT !.out = Append(@, Cur(m))])
    ELSE [m EXCEPT !.status = INT_IOERR]

\* ',' that leaves the cell as it is at end-of-input
DoComma_KeepOnEof(m, c) ==
    IF c = EOF THEN NextI(m) ELSE NextI([m EXCEPT !.node[m.ptr].c = c])

\* case ','; c is what getchar() returned, a byte or EOF, stored in an
\* unsigned char
DoComma(m, c) == NextI([m EXCEPT !.node[m.ptr].c = c % UCHAR_MOD])

\* the forward scan with its bound one short: it gives up one byte early
RECURSIVE FwdScan_ShortBound(_, _, _, _)
FwdScan_ShortBound(s, j, b, x) ==
    LET j1 == SizeAdd(j, 1)
        c == IF j1 < Len(s) THEN At(s, j1) ELSE x
        b1 == IF c = LBRACKET THEN b + 1
              ELSE IF c = RBRACKET THEN b - 1 ELSE b
    IN  IF b1 # 0 /\ j1 < Len(s) - 2
        THEN FwdScan_ShortBound(s, j1, b1, x)
        ELSE [i |-> j1, bal |-> b1]

\* the forward scan without nesting: it stops at the first ']'
RECURSIVE FwdScan_NoNest(_, _, _, _)
FwdScan_NoNest(s, j, b, x) ==
    LET j1 == SizeAdd(j, 1)
        c == IF j1 < Len(s) THEN At(s, j1) ELSE x
        b1 == IF c = RBRACKET THEN b - 1 ELSE b
    IN  IF b1 # 0 /\ j1 < SizeSub(Len(s), 1)
        THEN FwdScan_NoNest(s, j1, b1, x)
        ELSE [i |-> j1, bal |-> b1]

\* the do-while of case '[', entered at index j with balance b; x is the byte
\* a read past the end of the text finds
RECURSIVE FwdScan(_, _, _, _)
FwdScan(s, j, b, x) ==
    LET j1 == SizeAdd(j, 1)
        c == IF j1 < Len(s) THEN At(s, j1) ELSE x
        b1 == IF c = LBRACKET THEN b + 1
              ELSE IF c = RBRACKET THEN b - 1 ELSE b
    IN  IF b1 # 0 /\ j1 < SizeSub(Len(s), 1)
        THEN FwdScan(s, j1, b1, x)
        ELSE [i |-> j1, bal |-> b1]

\* '[' with its test inverted: it scans on a nonzero cell
DoOpen_Inverted(m, x) ==
    IF m.node[m.ptr].c # 0
    THEN LET r == FwdScan(m.str, m.i, 1, x)
         IN  NextI([m EXCEPT !.i = r.i, !.bal = r.bal])
    ELSE NextI(m)

\* case '['
DoOpen(m, x) ==
    IF Cur(m) = 0
    THEN LET r == FwdScan(m.str, m.i, 1, x)
         IN  NextI([m EXCEPT !.i = r.i, !.bal = r.bal])
    ELSE NextI(m)

\* the backward scan without nesting: it stops at the first '['
RECURSIVE BwdScan_NoNest(_, _, _)
BwdScan_NoNest(s, j, b) ==
    LET j1 == SizeSub(j, 1)
    IN  IF j1 >= Len(s)
        THEN [i |-> j1, bal |-> b, invl |-> TRUE]
        ELSE LET c == At(s, j1)
                 b1 == IF c = LBRACKET THEN b - 1 ELSE b
             IN  IF b1 # 0
                 THEN BwdScan_NoNest(s, j1, b1)
                 ELSE [i |-> j1, bal |-> b1, invl |-> FALSE]

\* the do-while of case ']', entered at index j with balance b
RECURSIVE BwdScan(_, _, _)
BwdScan(s, j, b) ==
    LET j1 == SizeSub(j, 1)
    IN  IF j1 >= Len(s)
        THEN [i |-> j1, bal |-> b, invl |-> TRUE]
        ELSE LET c == At(s, j1)
                 b1 == IF c = RBRACKET THEN b + 1
                       ELSE IF c = LBRACKET THEN b - 1 ELSE b
             IN  IF b1 # 0
                 THEN BwdScan(s, j1, b1)
                 ELSE [i |-> j1, bal |-> b1, invl |-> FALSE]

\* ']' that never jumps back
DoClose_NoJump(m) == NextI(m)

\* ']' that resumes on the matching '[' itself, which is then dispatched and
\* tested again
DoClose_Retest(m) ==
    IF m.node[m.ptr].c # 0
    THEN LET r == BwdScan(m.str, m.i, 1)
         IN  IF r.invl
             THEN [m EXCEPT !.i = r.i, !.bal = r.bal, !.status = INT_INVL]
             ELSE [m EXCEPT !.i = r.i, !.bal = r.bal]
    ELSE NextI(m)

\* case ']'
DoClose(m) ==
    IF Cur(m) # 0
    THEN LET r == BwdScan(m.str, m.i, 1)
         IN  IF r.invl
             THEN [m EXCEPT !.i = r.i, !.bal = r.bal, !.status = INT_INVL]
             ELSE NextI([m EXCEPT !.i = r.i, !.bal = r.bal])
    ELSE NextI(m)

\* a zero byte taken as the end of the text, as in a C string
DoDefault_NulEnds(m) ==
    IF m.str[m.i + 1] = NUL THEN [m EXCEPT !.i = Len(m.str)] ELSE NextI(m)

\* default: any other byte
DoDefault(m) == NextI(m)

\* the loop has run off the text
DoReturn(m) ==
    [m EXCEPT !.status = IF m.bal # 0 THEN INT_INVL ELSE INT_SUCC]

\* what the environment answers in one iteration
Env(ok, c, x) == [ok |-> ok, c |-> c, x |-> x]

\* one iteration of the for loop, or its exit
Advance(m, e) ==
    IF ~(m.i < fsize(m)) THEN DoReturn(m)
    ELSE LET b == At(m.str, m.i)
         IN  CASE b = PLUS -> DoPlus(m)
               [] b = MINUS -> DoMinus(m)
               [] b = LT -> DoLeft(m, e.ok)
               [] b = GT -> DoRight(m, e.ok)
               [] b = DOT -> DoDot(m, e.ok)
               [] b = COMMA -> DoComma(m, e.c)
               [] b = LBRACKET -> DoOpen(m, e.x)
               [] b = RBRACKET -> DoClose(m)
               [] OTHER -> DoDefault(m)

(* ------------------------------------------------------------------------ *)
(* The environment's answers.                                                *)

\* malloc() for a neighbour of the current node: not called when the link
\* to it is set
MallocOutcomes(m, link) ==
    IF link # NULL THEN {TRUE}
    ELSE {FALSE} \cup (IF Len(m.node) < MaxCells THEN {TRUE} ELSE {})

PutcharOutcomes(m) ==
    {FALSE} \cup (IF Len(m.out) < MaxOut THEN {TRUE} ELSE {})

GetcharOutcomes ==
    {EOF} \cup (IF ~eof /\ Len(inp) < MaxIn THEN InBytes ELSE {})

\* the byte a read of str[fsize] can find, for the scans that make one
PastEndBytes(m) ==
    IF Cur(m) = 0 /\ m.i = fsize(m) - 1
    THEN {LBRACKET, RBRACKET, NUL} ELSE {NUL}

(* ------------------------------------------------------------------------ *)
(* Actions.                                                                  *)

Init ==
    /\ str \in Programs
    /\ i = 0
    /\ bal = 0
    /\ node = <<Node(0, NULL, NULL)>>
    /\ ptr = 1
    /\ out = <<>>
    /\ status = RUNNING
    /\ inp = <<>>
    /\ eof = FALSE
    /\ ref = Fresh(Strip(str))
    /\ mpc = "interpret"
    /\ freed = <<>>

Apply(m) ==
    /\ i' = m.i
    /\ bal' = m.bal
    /\ node' = m.node
    /\ ptr' = m.ptr
    /\ out' = m.out
    /\ status' = m.status
    /\ str' = m.str
    /\ UNCHANGED <<mpc, freed>>

\* the run of the stripped text takes the same step when the byte dispatched
\* is an instruction
RefStep(e) ==
    ref' = IF ref.status = RUNNING THEN Advance(ref, e) ELSE ref

Dispatching(b) ==
    /\ status = RUNNING
    /\ i < Len(str)
    /\ At(str, i) = b

Plus ==
    /\ Dispatching(PLUS)
    /\ Apply(DoPlus(Main))
    /\ RefStep(Env(TRUE, EOF, NUL))
    /\ UNCHANGED <<inp, eof>>

Minus ==
    /\ Dispatching(MINUS)
    /\ Apply(DoMinus(Main))
    /\ RefStep(Env(TRUE, EOF, NUL))
    /\ UNCHANGED <<inp, eof>>

Left ==
    /\ Dispatching(LT)
    /\ \E ok \in MallocOutcomes(Main, node[ptr].prev) :
          /\ Apply(DoLeft(Main, ok))
          /\ RefStep(Env(ok, EOF, NUL))
    /\ UNCHANGED <<inp, eof>>

Right ==
    /\ Dispatching(GT)
    /\ \E ok \in MallocOutcomes(Main, node[ptr].next) :
          /\ Apply(DoRight(Main, ok))
          /\ RefStep(Env(ok, EOF, NUL))
    /\ UNCHANGED <<inp, eof>>

Dot ==
    /\ Dispatching(DOT)
    /\ \E ok \in PutcharOutcomes(Main) :
          /\ Apply(DoDot(Main, ok))
          /\ RefStep(Env(ok, EOF, NUL))
    /\ UNCHANGED <<inp, eof>>

Comma ==
    /\ Dispatching(COMMA)
    /\ \E c \in GetcharOutcomes :
          /\ Apply(DoComma(Main, c))
          /\ RefStep(Env(TRUE, c, NUL))
          /\ inp' = IF c = EOF THEN inp ELSE Append(inp, c)
          /\ eof' = (c = EOF)

Open ==
    /\ Dispatching(LBRACKET)
    /\ \E x \in PastEndBytes(Main) :
          /\ Apply(DoOpen(Main, x))
          /\ RefStep(Env(TRUE, EOF, x))
    /\ UNCHANGED <<inp, eof>>

Close ==
    /\ Dispatching(RBRACKET)
    /\ Apply(DoClose(Main))
    /\ RefStep(Env(TRUE, EOF, NUL))
    /\ UNCHANGED <<inp, eof>>

Default ==
    /\ status = RUNNING
    /\ i < Len(str)
    /\ At(str, i) \notin Instructions
    /\ Apply(DoDefault(Main))
    /\ UNCHANGED <<inp, eof, ref>>

Return ==
    /\ status = RUNNING
    /\ ~(i < Len(str))
    /\ Apply(DoReturn(Main))
    /\ RefStep(Env(TRUE, EOF, NUL))
    /\ UNCHANGED <<inp, eof>>

Next ==
    \/ Plus
    \/ Minus
    \/ Left
    \/ Right
    \/ Dot
    \/ Comma
    \/ Open
    \/ Close
    \/ Default
    \/ Return

Spec == Init /\ [][Next]_vars

(* ------------------------------------------------------------------------ *)
(* main(): what it does before it calls interpret() and, from the cleanup    *)
(* label on, after interpret() has returned or an ERROR() was taken.         *)

interp == <<str, i, bal, node, ptr, out, status, inp, eof, ref>>

\* main() is entered; str is what the source file holds
MainInit ==
    /\ str \in Programs
    /\ i = 0
    /\ bal = 0
    /\ node = <<>>
    /\ ptr = NULL
    /\ out = <<>>
    /\ status = NOT_CALLED
    /\ inp = <<>>
    /\ eof = FALSE
    /\ ref = Fresh(Strip(str))
    /\ mpc = "start"
    /\ freed = <<>>

\* setvbuf(), the argc test and fopen(): a failure returns at once
Start ==
    /\ mpc = "start"
    /\ \E ok \in BOOLEAN : mpc' = IF ok THEN "alloc" ELSE "exit"
    /\ UNCHANGED <<interp, freed>>

\* the first node: malloc(), and ERROR() when it fails
AllocTape ==
    /\ mpc = "alloc"
    /\ \E ok \in BOOLEAN :
          IF ok
          THEN /\ node' = <<Node(0, NULL, NULL)>>
               /\ ptr' = 1
               /\ mpc' = "read"
          ELSE /\ node' = node
               /\ ptr' = NULL
               /\ mpc' = "cleanup"
    /\ UNCHANGED <<str, i, bal, out, status, inp, eof, ref, freed>>

\* fseek(), ftell(), the size test, malloc() of the text and fread(): on any
\* failure ERROR(), else interpret() is called
ReadFile ==
    /\ mpc = "read"
    /\ \E ok \in BOOLEAN :
          IF ok
          THEN mpc' = "interpret" /\ status' = RUNNING
          ELSE mpc' = "cleanup" /\ status' = status
    /\ UNCHANGED <<str, i, bal, node, ptr, out, inp, eof, ref, freed>>

\* interpret() has returned: with or without ERROR(), cleanup is next
Returns ==
    /\ mpc = "interpret"
    /\ status \notin {RUNNING, NOT_CALLED}
    /\ mpc' = "cleanup"
    /\ UNCHANGED <<interp, freed>>

\* while (ptr->prev) on a null ptr: the process is killed, or goes on as if
\* the test had failed
WalkNull ==
    /\ mpc = "cleanup"
    /\ ptr = NULL
    /\ \E o \in {"killed", "free"} : mpc' = o
    /\ UNCHANGED <<interp, freed>>

\* while (ptr->prev) ptr = ptr->prev;
WalkLeft ==
    /\ mpc = "cleanup"
    /\ ptr # NULL
    /\ node[ptr].prev # NULL
    /\ ptr' = node[ptr].prev
    /\ UNCHANGED <<str, i, bal, node, out, status, inp, eof, ref, mpc, freed>>

\* ptr->prev is null: the walk is over
WalkEnd ==
    /\ mpc = "cleanup"
    /\ ptr # NULL
    /\ node[ptr].prev = NULL
    /\ mpc' = "free"
    /\ UNCHANGED <<interp, freed>>

\* tmp = ptr->next; free(ptr); ptr = tmp;
FreeNode ==
    /\ mpc = "free"
    /\ ptr # NULL
    /\ freed' = Append(freed, ptr)
    /\ ptr' = node[ptr].next
    /\ UNCHANGED <<str, i, bal, node, out, status, inp, eof, ref, mpc>>

\* ptr is null: free(str), fclose(fp), return
Exit ==
    /\ mpc = "free"
    /\ ptr = NULL
    /\ mpc' = "exit"
    /\ UNCHANGED <<interp, freed>>

MainNext ==
    \/ Start
    \/ AllocTape
    \/ ReadFile
    \/ Next
    \/ Returns
    \/ WalkNull
    \/ WalkLeft
    \/ WalkEnd
    \/ FreeNode
    \/ Exit

MainSpec == MainInit /\ [][MainNext]_vars

\* the runs of the named programs and of the shortest texts, in a process
\* that keeps running: an iteration that can be taken is taken
FairInit ==
    /\ Init
    /\ str \in SeqsUpTo(Alphabet, MaxLen - 2)
                 \cup {Echo, PlusRun, LoopOverLoop, Hello}

FairSpec == FairInit /\ [][Next]_vars /\ WF_vars(Next)

TypeOK ==
    /\ str \in Programs
    /\ i \in 0..SIZE_MAX
    /\ bal \in Int
    /\ ptr \in 1..Len(node)
    /\ \A n \in 1..Len(node) :
          /\ node[n].c \in 0..(UCHAR_MOD - 1)
          /\ node[n].prev \in 0..Len(node)
          /\ node[n].next \in 0..Len(node)
    /\ status \in {RUNNING, INT_SUCC, INT_INVL, INT_MEMERR, INT_IOERR}

(* ------------------------------------------------------------------------ *)
(* Reference notions the properties are stated with: bracket nesting by      *)
(* prefix depth, independent of the interpreter's scans.                     *)

\* '[' minus ']' among the first k bytes of s
Depth(s, k) ==
    Cardinality({j \in 1..k : s[j] = LBRACKET})
        - Cardinality({j \in 1..k : s[j] = RBRACKET})

\* the brackets of s are properly nested and fully matched
Balanced(s) ==
    /\ \A k \in 0..Len(s) : Depth(s, k) >= 0
    /\ Depth(s, Len(s)) = 0

\* the index of the ']' matching the '[' at index p
MatchClose(s, p) ==
    CHOOSE q \in p..(Len(s) - 1) :
        /\ Depth(s, q + 1) = Depth(s, p)
        /\ \A r \in (p + 1)..q : Depth(s, r) > Depth(s, p)

\* the index of the '[' matching the ']' at index q
MatchOpen(s, q) ==
    CHOOSE p \in 0..q :
        /\ Depth(s, p) = Depth(s, q + 1)
        /\ \A r \in (p + 1)..q : Depth(s, r) > Depth(s, p)

\* s is a prefix of u
IsPrefix(s, u) == Len(s) <= Len(u) /\ \A k \in 1..Len(s) : s[k] = u[k]

\* how many of the first k bytes of s are byte b
Count(s, k, b) == Cardinality({j \in 1..k : s[j] = b})

Returned == status # RUNNING

(* ------------------------------------------------------------------------ *)
(* Properties.                                                               *)

\* C1: a program whose brackets are not properly nested and fully matched is
\* never accepted: interpret never returns INT_SUCC on it.
C1_UnmatchedRejected == ~Balanced(str) => status # INT_SUCC

\* C2: a program whose brackets are properly nested and fully matched is never
\* rejected: interpret never returns INT_INVL on it, the balance counter is 0
\* when the dispatch loop runs off the text, and a return that is no
\* allocation or output failure is INT_SUCC.
C2_ValidNeverRejected ==
    Balanced(str) =>
        /\ status # INT_INVL
        /\ (status = RUNNING /\ ~(i < Len(str))) => bal = 0
        /\ (Returned /\ status \notin {INT_MEMERR, INT_IOERR})
              => (status = INT_SUCC /\ bal = 0)

\* a balanced program with a taken backward jump and a taken forward jump
\* has returned success
C2_Witness ==
    /\ str = <<MINUS, LBRACKET, MINUS, RBRACKET, LBRACKET, RBRACKET>>
    /\ status = INT_SUCC

\* C3: the echo program writes exactly the input bytes, in order and
\* unchanged: what it has written is always a prefix of what it has read.
C3_EchoCopiesInput == str = Echo => IsPrefix(out, inp)

\* only '+' and '-'
PlusMinusOnly(s) == \A k \in 1..Len(s) : s[k] \in {PLUS, MINUS}

\* C4: after p '+' and m '-' in any order on the initial cell, the cell holds
\* (p - m) mod 256, and every cell is a byte.
C4_WrapAround ==
    /\ \A n \in 1..Len(node) : node[n].c \in 0..255
    /\ PlusMinusOnly(str) =>
          node[ptr].c = (Count(str, i, PLUS) - Count(str, i, MINUS)) % 256

\* 256 times '+' have brought the cell from 255 round to 0
C4_Witness == str = PlusRun /\ i = 256 /\ node[ptr].c = 0

\* C5: in a balanced program, a '[' dispatched on a zero cell continues just
\* after its matching ']', whatever the bytes between them, with the balance
\* counter back at 0 and the tape, the pointer, the input and the output
\* untouched.
C5_ForwardJump ==
    [][(Balanced(str) /\ Dispatching(LBRACKET) /\ Cur(Main) = 0) =>
          /\ i' = MatchClose(str, i) + 1
          /\ bal' = 0
          /\ status' = RUNNING
          /\ UNCHANGED <<str, node, ptr, out, inp, eof>>]_vars

\* the jump over "[[-]@]" (@ a zero byte) has been taken from its first byte
C5_Witness ==
    /\ str = <<LBRACKET, LBRACKET, MINUS, RBRACKET, NUL, RBRACKET>>
    /\ i = 6
    /\ status = RUNNING

\* C6: in a balanced program a '[' dispatched on a nonzero cell enters the
\* body; a ']' dispatched on a nonzero cell continues just after its matching
\* '[', and a ']' dispatched on a zero cell continues just after itself; none
\* of them touches the tape, the pointer, the input or the output.
C6_LoopSemantics ==
    [][Balanced(str) =>
          /\ (Dispatching(LBRACKET) /\ Cur(Main) # 0) => i' = i + 1
          /\ (Dispatching(RBRACKET) /\ Cur(Main) # 0) =>
                i' = MatchOpen(str, i) + 1
          /\ (Dispatching(RBRACKET) /\ Cur(Main) = 0) => i' = i + 1
          /\ (Dispatching(LBRACKET) \/ Dispatching(RBRACKET)) =>
                /\ status' = RUNNING
                /\ UNCHANGED <<str, node, ptr, out, inp, eof>>]_vars

\* "-[>[]<-]" has run its outer loop to the end, jumping back over the inner
\* loop each time
C6_Witness ==
    /\ str = LoopOverLoop
    /\ i = Len(str)
    /\ node[ptr].c = 0
    /\ status = RUNNING

\* how many of the first k bytes of s are instructions
InstrCount(s, k) == Cardinality({j \in 1..k : s[j] \in Instructions})

\* C7: a balanced program and the same program without its non-instruction
\* bytes, given the same input and the same answers from malloc and putchar,
\* are at the same instruction with the same tape, pointer, output, balance
\* counter and status after every instruction.
C7_InertBytes ==
    Balanced(str) =>
        /\ ref.str = Strip(str)
        /\ ref.i = InstrCount(str, i)
        /\ ref.node = node
        /\ ref.ptr = ptr
        /\ ref.out = out
        /\ ref.bal = bal
        /\ ref.status = status

\* "-[@-@]" (@ a zero byte) has run to success, its loop taken 255 times
C7_Witness ==
    /\ str = <<MINUS, LBRACKET, NUL, MINUS, NUL, RBRACKET>>
    /\ status = INT_SUCC

\* '>' then '<', and '<' then '>', from the state m
RightLeft(m) == DoLeft(DoRight(m, TRUE), TRUE)
LeftRight(m) == DoRight(DoLeft(m, TRUE), TRUE)

\* r has the current cell of m and every cell of m with its value
SameCells(m, r) ==
    /\ r.ptr = m.ptr
    /\ \A n \in 1..Len(m.node) : r.node[n].c = m.node[n].c

\* C8: '<' and '>' leave the value of every existing cell as it was, link in
\* a new cell only when there is none in that direction, and the new cell
\* holds 0; "><" and "<>" from any cell come back to that cell.
C8_MovePreservesTape ==
    /\ [](status = RUNNING =>
            SameCells(Main, RightLeft(Main)) /\ SameCells(Main, LeftRight(Main)))
    /\ [][(Dispatching(LT) \/ Dispatching(GT)) =>
            /\ \A n \in 1..Len(node) : node'[n].c = node[n].c
            /\ Len(node') \in {Len(node), Len(node) + 1}
            /\ Len(node') = Len(node) + 1 =>
                  /\ node'[Len(node')].c = 0
                  /\ ptr' = Len(node')
                  /\ Dispatching(LT) => node[ptr].prev = NULL
                  /\ Dispatching(GT) => node[ptr].next = NULL
            /\ UNCHANGED <<str, out, inp, eof>>]_vars

\* after "+><<" the pointer has been right, back over the incremented
\* initial cell, and on to a new cell on the left
C8_Witness ==
    /\ str = <<PLUS, GT, LT, LT>>
    /\ i = 4
    /\ Len(node) = 3
    /\ node[1].c = 1
    /\ ptr = 3

\* the dispatch loop is at the ']' of an empty loop "[]" on a nonzero cell
Spin ==
    /\ status = RUNNING
    /\ 1 <= i /\ i < Len(str)
    /\ At(str, i) = RBRACKET
    /\ At(str, i - 1) = LBRACKET
    /\ Cur(Main) # 0

\* C9: the '[' of an empty loop "[]" dispatched on a zero cell continues just
\* after the ']' with nothing else changed; dispatched on a nonzero cell it
\* leaves the loop at its ']' for ever: the run does not return, the
\* instruction index stays, and tape, pointer and output stay as they are.
C9_EmptyLoop ==
    [][/\ (Dispatching(LBRACKET) /\ i + 1 < Len(str)
              /\ At(str, i + 1) = RBRACKET) =>
            /\ Cur(Main) = 0 => (i' = i + 2 /\ status' = RUNNING)
            /\ Cur(Main) # 0 => (i' = i + 1 /\ Spin')
            /\ UNCHANGED <<str, node, ptr, out, inp, eof>>
       /\ Spin => (Spin' /\ i' = i
                     /\ UNCHANGED <<str, node, ptr, out, inp, eof>>)]_vars

\* "[]-[]": the first loop was skipped and the second one is spinning
C9_Witness ==
    /\ str = <<LBRACKET, RBRACKET, MINUS, LBRACKET, RBRACKET>>
    /\ Spin
    /\ i = 4

\* m stopped with status st and nothing else changed
Aborted(m, st) == [m EXCEPT !.status = st]

\* C10: a rejected write makes '.' return INT_IOERR and a failed allocation
\* makes '<' or '>' return INT_MEMERR, with tape, pointer and output as they
\* were before the instruction; nothing is dispatched after either.
C10_FailuresAbort ==
    /\ [](Dispatching(DOT) => DoDot(Main, FALSE) = Aborted(Main, INT_IOERR))
    /\ []((Dispatching(LT) /\ node[ptr].prev = NULL) =>
            DoLeft(Main, FALSE) = Aborted(Main, INT_MEMERR))
    /\ []((Dispatching(GT) /\ node[ptr].next = NULL) =>
            DoRight(Main, FALSE) = Aborted(Main, INT_MEMERR))
    /\ [][/\ status' = INT_IOERR =>
               (Dispatching(DOT) /\ UNCHANGED <<node, ptr, out, i>>)
          /\ status' = INT_MEMERR =>
               /\ \/ Dispatching(LT) /\ node[ptr].prev = NULL
                  \/ Dispatching(GT) /\ node[ptr].next = NULL
               /\ UNCHANGED <<node, ptr, out, i>>
          /\ status \notin {INT_IOERR, INT_MEMERR}]_vars

\* after "+.>" the allocation failed: the byte written stands, the cell
\* keeps its value
C10_Witness ==
    /\ status = INT_MEMERR
    /\ out = <<1>>
    /\ node = <<Node(1, NULL, NULL)>>
    /\ ptr = 1

\* the bytes of "Hello"
HelloBytes == <<72, 101, 108, 108, 111>>

\* C11: the run of the "Hello" program ends; what it has written is always a
\* prefix of "Hello" and, when it ends with neither an allocation nor an
\* output failure, it ends with INT_SUCC and has written exactly "Hello";
\* the initial cell never gets a left neighbour.
C11_GoldenTrace ==
    /\ [](str = Hello =>
            /\ IsPrefix(out, HelloBytes)
            /\ node[1].prev = NULL
            /\ (Returned /\ status \notin {INT_MEMERR, INT_IOERR}) =>
                  (status = INT_SUCC /\ out = HelloBytes))
    /\ (str = Hello) ~> Returned

\* the "Hello" program has returned success with all five bytes written
C11_Witness ==
    /\ str = Hello
    /\ status = INT_SUCC
    /\ out = HelloBytes
    /\ Len(node) = 7

\* a backward jump is being taken and its scan succeeds
BackJump ==
    /\ Dispatching(RBRACKET)
    /\ Cur(Main) # 0
    /\ status' = RUNNING

\* C12: after a taken backward jump the instruction index is the matching
\* '[' itself, which the next iteration dispatches.
C12_ResumesOnBracket ==
    [][(Balanced(str) /\ BackJump) =>
          (i' = MatchOpen(str, i) /\ At(str, i') = LBRACKET)]_vars

\* C12, amended: after a taken backward jump the instruction index is one
\* past the matching '[': the byte before it is a '[' at the depth the ']'
\* closes, every byte from there to the ']' lies deeper, and the balance
\* counter is back at 0.
C12_ResumesAfterBracket ==
    [][BackJump =>
          /\ 1 <= i' /\ i' <= i
          /\ At(str, i' - 1) = LBRACKET
          /\ Depth(str, i' - 1) = Depth(str, i + 1)
          /\ \A r \in i'..i : Depth(str, r) > Depth(str, i + 1)
          /\ bal' = 0]_vars

\* "-[-]" after its first backward jump: the '-' of the body is next
C12_Witness ==
    /\ str = <<MINUS, LBRACKET, MINUS, RBRACKET>>
    /\ i = 2
    /\ node[ptr].c = 254
    /\ status = RUNNING

\* the '[' at index p has no matching ']', the ']' at index p no matching '['
UnmatchedOpen(s, p) == \A q \in (p + 1)..Len(s) : Depth(s, q) > Depth(s, p)
UnmatchedClose(s, p) == \A q \in 0..p : Depth(s, q) > Depth(s, p + 1)

\* C13: a forward scan for a '[' without a match runs to the end of the text
\* with the balance counter nonzero and the loop's exit then returns
\* INT_INVL; a backward scan for a ']' without a match returns INT_INVL; in
\* between no cell, pointer, input or output changes.
C13_FailedScanReturnsInvl ==
    [][/\ (Dispatching(LBRACKET) /\ Cur(Main) = 0 /\ UnmatchedOpen(str, i)) =>
            /\ bal' # 0
            /\ ~(i' < Len(str))
            /\ status' = RUNNING
            /\ UNCHANGED <<str, node, ptr, out, inp, eof>>
       /\ (status = RUNNING /\ ~(i < Len(str)) /\ bal # 0) =>
            /\ status' = INT_INVL
            /\ UNCHANGED <<str, node, ptr, out, inp, eof>>
       /\ (Dispatching(RBRACKET) /\ Cur(Main) # 0 /\ UnmatchedClose(str, i)) =>
            /\ status' = INT_INVL
            /\ UNCHANGED <<str, node, ptr, out, inp, eof>>]_vars

\* C14: every index at which the text is read lies in 0..fsize-1: the index
\* dispatched, and the last (largest) index of a forward scan and the last
\* (smallest) index of a backward scan that the iteration at hand makes.
C14_ReadsInBounds ==
    (status = RUNNING /\ i < Len(str)) =>
        /\ 0 <= i
        /\ (At(str, i) = LBRACKET /\ Cur(Main) = 0) =>
              FwdScan(str, i, 1, NUL).i < Len(str)
        /\ (At(str, i) = RBRACKET /\ Cur(Main) # 0) =>
              LET r == BwdScan(str, i, 1)
              IN  r.invl \/ (0 <= r.i /\ r.i < Len(str))

\* C16: a ',' dispatched when the input is exhausted sets the current cell
\* to 255 and goes on to the next instruction, changing no other cell, no
\* link, no pointer and no output; the input stays exhausted.
C16_EofPolicy ==
    [][/\ (Dispatching(COMMA) /\ eof') =>
            /\ node' = [node EXCEPT ![ptr].c = 255]
            /\ i' = i + 1
            /\ status' = RUNNING
            /\ UNCHANGED <<str, ptr, out, inp, bal>>
       /\ eof => eof']_vars

\* ",+," with input <<7>>: the second ',' found the input exhausted and
\* replaced the 8 in the cell
C16_Witness ==
    /\ str = <<COMMA, PLUS, COMMA>>
    /\ i = 3
    /\ inp = <<7>>
    /\ eof
    /\ node[ptr].c = 255

\* C17: in a balanced program, where the interpreter takes a backward jump,
\* the interpreter that resumes on the matching '[' lands on that '[' with
\* the same tape, pointer and output, and its next iteration, the '[' tested
\* again, brings it to the very state the interpreter is in after its jump.
C17_RetestEquivalent ==
    (Balanced(str) /\ Dispatching(RBRACKET) /\ Cur(Main) # 0) =>
        LET r == DoClose_Retest(Main)
        IN  /\ r.status = RUNNING
            /\ r.i = MatchOpen(str, i)
            /\ At(str, r.i) = LBRACKET
            /\ r.node = node /\ r.ptr = ptr /\ r.out = out
            /\ DoOpen(r, NUL) = DoClose(Main)

\* "-[>[]<-]" at its outer ']' for the second time
C17_Witness ==
    /\ str = LoopOverLoop
    /\ i = 7
    /\ node[1].c = 253
    /\ ptr = 1
    /\ status = RUNNING

\* C18: from every '[' the forward scan makes between 1 and fsize steps and
\* ends on balance 0 or at the end of the text; from every ']' the backward
\* scan makes between 1 and fsize steps and ends on balance 0 or on the
\* underflow check.
C18_ScansTerminate ==
    \A p \in 0..(Len(str) - 1) :
        /\ At(str, p) = LBRACKET =>
              \A x \in {LBRACKET, RBRACKET, NUL} :
                  LET r == FwdScan(str, p, 1, x)
                  IN  /\ (r.i - p) \in 1..Len(str)
                      /\ r.bal = 0 \/ r.i >= Len(str) - 1
        /\ At(str, p) = RBRACKET =>
              LET r == BwdScan(str, p, 1)
              IN  /\ (IF r.invl THEN p + 1 ELSE p - r.i) \in 1..Len(str)
                  /\ r.invl => r.i = SIZE_MAX
                  /\ ~r.invl => r.bal = 0

\* "-@@@@]" (@ a zero byte): the backward scan has gone through the whole
\* text and underflowed
C18_Witness ==
    /\ str = <<MINUS, NUL, NUL, NUL, NUL, RBRACKET>>
    /\ status = INT_INVL
    /\ i = SIZE_MAX

\* the nodes passed to free() so far
Freed == {freed[k] : k \in 1..Len(freed)}

\* C15: from the cleanup label on, main never dereferences a null or a freed
\* node, frees no node twice, and has freed every allocated node when it
\* returns.
C15_TapeReleased ==
    /\ mpc = "cleanup" => (ptr # NULL /\ ptr \notin Freed)
    /\ (mpc = "free" /\ ptr # NULL) => ptr \notin Freed
    /\ \A k, l \in 1..Len(freed) : freed[k] = freed[l] => k = l
    /\ (mpc = "exit" /\ node # <<>>) => Freed = 1..Len(node)
    /\ mpc # "killed"

====
